---- MODULE Spec2Model ----
(***************************************************************************)
(* Model of the crontab field expander (scheduleentity.go) and of the job  *)
(* line tokenizer (job.go).                                                *)
(*                                                                         *)
(* A Go string is modelled as a sequence of one-byte characters, each a    *)
(* TLA+ string of its own: "mon" is <<"m","o","n">>.  Two bytes that have  *)
(* no printable form are named: VT is the vertical tab (0x0B) and XFF is   *)
(* the byte 0xFF, which is not valid UTF-8.                                *)
(*                                                                         *)
(* An unsigned 64-bit value is modelled as its decimal digits, most        *)
(* significant first and without leading zeros (zero is <<0>>), so that    *)
(* the conversion int(uint64) keeps its 64-bit wrap-around.  int is taken  *)
(* as 64 bits wide, as it is on the 64-bit platforms of Go.                *)
(*                                                                         *)
(* ParseSchedule, the schedule collaborator of Job.parse, is a black box   *)
(* that accepts or rejects the text it is given.                           *)
(***************************************************************************)
EXTENDS Integers, Sequences, FiniteSets, TLC

VARIABLES pc, fn, raw, typ, hasUser, schedOK, limit, se, rng, flds, jo, delegated

vars == <<pc, fn, raw, typ, hasUser, schedOK, limit, se, rng, flds, jo, delegated>>

----------------------------------------------------------------------------
(* Characters                                                              *)

VT == "<VT>"

XFF == "<FF>"

\* U+FFFD, the rune an invalid byte decodes to (three bytes once encoded)
UFFFD == "<U+FFFD>"

DigitChars == <<"0", "1", "2", "3", "4", "5", "6", "7", "8", "9">>

UpperChars == <<"A", "B", "C", "D", "E", "F", "G", "H", "I", "J", "K", "L", "M",
                "N", "O", "P", "Q", "R", "S", "T", "U", "V", "W", "X", "Y", "Z">>

LowerChars == <<"a", "b", "c", "d", "e", "f", "g", "h", "i", "j", "k", "l", "m",
                "n", "o", "p", "q", "r", "s", "t", "u", "v", "w", "x", "y", "z">>

Elems(s) == {s[i] : i \in DOMAIN s}

IsDigit(c) == c \in Elems(DigitChars)

DigitVal(c) == (CHOOSE i \in DOMAIN DigitChars : DigitChars[i] = c) - 1

\* unicode.IsSpace on the one-byte characters: '\t', '\n', '\v', '\f', '\r', ' '
IsSpace(c) == c \in {"\t", "\n", VT, "\f", "\r", " "}

\* the regexp class \s: [\t\n\f\r ] (the vertical tab is not in it)
IsRegSpace(c) == c \in {"\t", "\n", "\f", "\r", " "}

\* the regexp class \w: [0-9A-Za-z_]
IsWord(c) == c \in Elems(DigitChars) \cup Elems(UpperChars) \cup Elems(LowerChars) \cup {"_"}

\* len(string(r)) for the rune r that ranging over the string yields at this
\* byte: an invalid byte decodes to U+FFFD, whose encoding is three bytes long
RuneStringLen(c) == IF c = XFF THEN 3 ELSE 1

----------------------------------------------------------------------------
(* Strings                                                                 *)

ToLowerChar(c) ==
    IF c \in Elems(UpperChars)
    THEN LowerChars[CHOOSE i \in DOMAIN UpperChars : UpperChars[i] = c]
    ELSE c

\* strings.ToLower (concatenating makes TLC build the sequence once, here and below)
ToLower(s) == <<>> \o [i \in DOMAIN s |-> ToLowerChar(s[i])]

HasPrefix(s, p) == Len(s) >= Len(p) /\ SubSeq(s, 1, Len(p)) = p

Drop(s, k) == SubSeq(s, k + 1, Len(s))

RECURSIVE Replace(_, _, _)
\* strings.Replace(s, old, new, -1) for a non-empty old
Replace(s, old, new) ==
    IF Len(s) < Len(old) THEN s
    ELSE IF HasPrefix(s, old) THEN new \o Replace(Drop(s, Len(old)), old, new)
    ELSE <<Head(s)>> \o Replace(Tail(s), old, new)

\* position of the first sep in s, 0 when there is none
Index(s, sep) ==
    IF \E i \in DOMAIN s : s[i] = sep
    THEN CHOOSE i \in DOMAIN s : s[i] = sep /\ \A j \in 1..(i - 1) : s[j] # sep
    ELSE 0

RECURSIVE Split(_, _)
\* strings.Split(s, sep) for a one-character sep
Split(s, sep) ==
    LET i == Index(s, sep)
    IN  IF i = 0 THEN <<s>>
        ELSE <<SubSeq(s, 1, i - 1)>> \o Split(Drop(s, i), sep)

\* strings.SplitN(s, sep, 2) for a one-character sep
SplitN2(s, sep) ==
    LET i == Index(s, sep)
    IN  IF i = 0 THEN <<s>>
        ELSE <<SubSeq(s, 1, i - 1), Drop(s, i)>>

RECURSIVE TrimLeft(_)
TrimLeft(s) == IF s # <<>> /\ IsSpace(Head(s)) THEN TrimLeft(Tail(s)) ELSE s

RECURSIVE TrimRight(_)
TrimRight(s) ==
    IF s # <<>> /\ IsSpace(s[Len(s)]) THEN TrimRight(SubSeq(s, 1, Len(s) - 1)) ELSE s

\* strings.TrimSpace
TrimSpace(s) == TrimRight(TrimLeft(s))

\* fmt.Sprintf("%d", i) for 0 <= i <= 99
FormatInt(i) ==
    IF i < 10 THEN <<DigitChars[i + 1]>>
    ELSE <<DigitChars[(i \div 10) + 1], DigitChars[(i % 10) + 1]>>

----------------------------------------------------------------------------
(* 64-bit numbers as decimal digits                                        *)

Pow2_63 == <<9, 2, 2, 3, 3, 7, 2, 0, 3, 6, 8, 5, 4, 7, 7, 5, 8, 0, 8>>

Pow2_64 == <<1, 8, 4, 4, 6, 7, 4, 4, 0, 7, 3, 7, 0, 9, 5, 5, 1, 6, 1, 6>>

RECURSIVE StripZeros(_)
StripZeros(d) == IF Len(d) > 1 /\ Head(d) = 0 THEN StripZeros(Tail(d)) ELSE d

RECURSIVE LexLess(_, _)
LexLess(a, b) ==
    /\ a # <<>>
    /\ \/ Head(a) < Head(b)
       \/ Head(a) = Head(b) /\ LexLess(Tail(a), Tail(b))

\* a < b for two digit sequences without leading zeros
DecLess(a, b) == Len(a) < Len(b) \/ (Len(a) = Len(b) /\ LexLess(a, b))

RECURSIVE PadZeros(_, _)
PadZeros(d, n) == IF Len(d) >= n THEN d ELSE PadZeros(<<0>> \o d, n)

RECURSIVE SubDigits(_, _, _)
\* a - b - borrow, digit by digit from the right, for Len(a) = Len(b), a >= b
SubDigits(a, b, borrow) ==
    IF a = <<>> THEN <<>>
    ELSE LET n == Len(a)
             x == a[n] - b[n] - borrow
         IN  SubDigits(SubSeq(a, 1, n - 1), SubSeq(b, 1, n - 1), IF x < 0 THEN 1 ELSE 0)
                 \o <<IF x < 0 THEN x + 10 ELSE x>>

DecSub(a, b) == StripZeros(SubDigits(a, PadZeros(b, Len(a)), 0))

RECURSIVE DecToNat(_)
\* the value of at most nine digits
DecToNat(d) == IF d = <<>> THEN 0 ELSE DecToNat(SubSeq(d, 1, Len(d) - 1)) * 10 + d[Len(d)]

\* strconv.ParseUint(s, 10, 64): digits only, no sign, at most 2^64 - 1
ParseUint(s) ==
    IF s = <<>> \/ \E i \in DOMAIN s : ~IsDigit(s[i])
    THEN [ok |-> FALSE, val |-> <<0>>]
    ELSE LET d == StripZeros(<<>> \o [i \in DOMAIN s |-> DigitVal(s[i])])
         IN  IF DecLess(d, Pow2_64) THEN [ok |-> TRUE, val |-> d]
             ELSE [ok |-> FALSE, val |-> <<0>>]

\* int(n) for a uint64 n where int is 64 bits wide: n - 2^64 from 2^63 on
ToInt(n) ==
    IF DecLess(n, Pow2_63) THEN [neg |-> FALSE, mag |-> n]
    ELSE [neg |-> TRUE, mag |-> DecSub(Pow2_64, n)]

\* num < lo || num > hi for an int num and 0 <= lo <= hi <= 99
OutOfRange(num, lo, hi) ==
    \/ num.neg
    \/ Len(num.mag) > 2
    \/ DecToNat(num.mag) < lo
    \/ DecToNat(num.mag) > hi

\* counter % incr in Go for 0 <= counter <= 99 and incr # 0: the remainder
\* has the sign of the dividend, so the sign of incr does not matter
GoRem(counter, incr) ==
    IF Len(incr.mag) > 2 THEN counter ELSE counter % DecToNat(incr.mag)

----------------------------------------------------------------------------
(* scheduleentity.go                                                       *)

scheduleMinute == "Minute"

scheduleHour == "Hour"

scheduleDay == "Day"

scheduleMonth == "Month"

scheduleDayOfWeek == "DayOfWeek"

scheduleTypes == {scheduleMinute, scheduleHour, scheduleDay, scheduleMonth, scheduleDayOfWeek}

\* Aliases[k] is the alias of the number k - 1 (Go indexes from 0)
entityParams ==
    [st \in scheduleTypes |->
        CASE st = scheduleMinute -> [Range |-> <<0, 59>>, Aliases |-> <<>>]
          [] st = scheduleHour -> [Range |-> <<0, 23>>, Aliases |-> <<>>]
          [] st = scheduleDay -> [Range |-> <<1, 31>>, Aliases |-> <<>>]
          [] st = scheduleMonth ->
                [Range |-> <<1, 12>>,
                 Aliases |-> << <<>>, <<"j", "a", "n">>, <<"f", "e", "b">>, <<"m", "a", "r">>,
                                <<"a", "p", "r">>, <<"m", "a", "y">>, <<"j", "u", "n">>,
                                <<"j", "u", "l">>, <<"a", "u", "g">>, <<"s", "e", "p">>,
                                <<"o", "c", "t">>, <<"n", "o", "v">>, <<"d", "e", "c">> >>]
          [] st = scheduleDayOfWeek ->
                [Range |-> <<0, 7>>,
                 Aliases |-> << <<"s", "u", "n">>, <<"m", "o", "n">>, <<"t", "u", "e">>,
                                <<"w", "e", "d">>, <<"t", "h", "u">>, <<"f", "r", "i">>,
                                <<"s", "a", "t">> >>]]

NilErr == [kind |-> "nil", raw |-> <<>>, detail |-> <<>>]

Errorf(kind, r, detail) == [kind |-> kind, raw |-> r, detail |-> detail]

\* ^(\d{1,2})-(\d{1,2})$ : the two submatches, or <<>> when the item does not match
rangeReg(item) ==
    LET i == Index(item, "-")
        l == SubSeq(item, 1, i - 1)
        r == Drop(item, i)
        digits(x) == Len(x) \in {1, 2} /\ \A k \in DOMAIN x : IsDigit(x[k])
    IN  IF i # 0 /\ digits(l) /\ digits(r) THEN <<l, r>> ELSE <<>>

\* strconv.ParseInt on a submatch of rangeReg (one or two digits)
ParseInt(s) == DecToNat([i \in DOMAIN s |-> DigitVal(s[i])])

\* parseRange with > for >= in the test of the bounds: equal bounds pass
parseRangeAllowEqual(item, r) ==
    IF item = <<"*">> THEN [ret |-> <<r[1], r[2]>>, err |-> NilErr]
    ELSE LET m == rangeReg(item)
         IN  IF m # <<>>
             THEN LET min == ParseInt(m[1])
                      max == ParseInt(m[2])
                  IN  IF min > max \/ min < r[1] \/ max > r[2]
                      THEN [ret |-> <<0, 0>>, err |-> Errorf("invalid range", <<>>, item)]
                      ELSE [ret |-> <<min, max>>, err |-> NilErr]
             ELSE [ret |-> <<0, 0>>, err |-> Errorf("invalid range", <<>>, item)]

parseRange(item, r) ==
    IF item = <<"*">> THEN [ret |-> <<r[1], r[2]>>, err |-> NilErr]
    ELSE LET m == rangeReg(item)
         IN  IF m # <<>>
             THEN LET min == ParseInt(m[1])
                      max == ParseInt(m[2])
                  IN  IF min >= max \/ min < r[1] \/ max > r[2]
                      THEN [ret |-> <<0, 0>>, err |-> Errorf("invalid range", <<>>, item)]
                      ELSE [ret |-> <<min, max>>, err |-> NilErr]
             ELSE [ret |-> <<0, 0>>, err |-> Errorf("invalid range", <<>>, item)]

RECURSIVE ReplaceAliasesOffByOne(_, _, _)
\* the alias loop with each alias replaced by the number after its own
ReplaceAliasesOffByOne(entity, aliases, i) ==
    IF i >= Len(aliases) THEN entity
    ELSE LET v == aliases[i + 1]
         IN  IF v = <<>> THEN ReplaceAliasesOffByOne(entity, aliases, i + 1)
             ELSE ReplaceAliasesOffByOne(Replace(entity, v, FormatInt(i + 1)), aliases, i + 1)

RECURSIVE ReplaceAliases(_, _, _)
\* the loop over ep.Aliases, from the alias of index i (from 0) on
ReplaceAliases(entity, aliases, i) ==
    IF i >= Len(aliases) THEN entity
    ELSE LET v == aliases[i + 1]
         IN  IF v = <<>> THEN ReplaceAliases(entity, aliases, i + 1)
             ELSE ReplaceAliases(Replace(entity, v, FormatInt(i)), aliases, i + 1)

\* the values the stepped walk over rg keeps
StepWalk(rg, incr) ==
    LET all == [k \in 1..(rg[2] - rg[1] + 1) |-> rg[1] + k - 1]
        kept(i) == GoRem(i - rg[1], incr) = 0
    IN  SelectSeq(all, kept)

\* one turn of the loop over the items: the values the item appends, or its error
ExpandItem(item, r, rawText) ==
    LET stuffs == SplitN2(item, "/")
    IN  IF Len(stuffs) = 2
        THEN LET pr == parseRange(stuffs[1], r)
                 increments == ParseUint(stuffs[2])
             IN  IF pr.err # NilErr
                 THEN [vals |-> <<>>, err |-> Errorf("invalid entity, range", rawText, pr.err.detail)]
                 ELSE IF ~increments.ok \/ increments.val = <<0>>
                 THEN [vals |-> <<>>, err |-> Errorf("invalid increments", rawText, stuffs[2])]
                 ELSE [vals |-> StepWalk(pr.ret, ToInt(increments.val)), err |-> NilErr]
        ELSE LET n == ParseUint(item)
             IN  IF n.ok
                 THEN IF OutOfRange(ToInt(n.val), r[1], r[2])
                      THEN [vals |-> <<>>, err |-> Errorf("invalid entity", rawText, <<>>)]
                      ELSE [vals |-> <<DecToNat(n.val)>>, err |-> NilErr]
                 ELSE LET pr == parseRange(item, r)
                      IN  IF pr.err # NilErr
                          THEN [vals |-> <<>>,
                                err |-> Errorf("invalid entity, range", rawText, pr.err.detail)]
                          ELSE [vals |-> [k \in 1..(pr.ret[2] - pr.ret[1] + 1) |-> pr.ret[1] + k - 1],
                                err |-> NilErr]

RECURSIVE ExpandItemsSkipInvalid(_, _, _, _)
\* the loop over the items that goes on past an item in error
ExpandItemsSkipInvalid(items, r, rawText, expanded) ==
    IF items = <<>> THEN [vals |-> expanded, err |-> NilErr]
    ELSE LET one == ExpandItem(Head(items), r, rawText)
         IN  IF one.err # NilErr THEN ExpandItemsSkipInvalid(Tail(items), r, rawText, expanded)
             ELSE ExpandItemsSkipInvalid(Tail(items), r, rawText, expanded \o one.vals)

RECURSIVE ExpandItems(_, _, _, _)
\* the loop over strings.Split(entity, ","): returns at the first item in error
ExpandItems(items, r, rawText, expanded) ==
    IF items = <<>> THEN [vals |-> expanded, err |-> NilErr]
    ELSE LET one == ExpandItem(Head(items), r, rawText)
         IN  IF one.err # NilErr THEN [vals |-> <<>>, err |-> one.err]
             ELSE ExpandItems(Tail(items), r, rawText, expanded \o one.vals)

\* AddSunday without the test of the kind
AddSundayAnyKind(expanded, st) ==
    IF \E i \in DOMAIN expanded : expanded[i] = 7 THEN Append(expanded, 0) ELSE expanded

\* for DayOfWeek, a 7 among the values appends a 0
AddSunday(expanded, st) ==
    IF st = scheduleDayOfWeek /\ \E i \in DOMAIN expanded : expanded[i] = 7
    THEN Append(expanded, 0)
    ELSE expanded

\* the first occurrence of each value, in the order of the list
Uniq(expanded) ==
    LET first == {i \in DOMAIN expanded : \A j \in 1..(i - 1) : expanded[j] # expanded[i]}
        place == <<>> \o [i \in DOMAIN expanded |-> Cardinality({j \in first : j < i}) + 1]
    IN  [k \in 1..Cardinality(first) |-> expanded[CHOOSE i \in first : place[i] = k]]

\* the list left in the order of its items
SortIntsKeepOrder(s) == s

\* sort.Ints: each element goes to the place its rank gives it
SortInts(s) ==
    LET rank == <<>> \o [i \in DOMAIN s |->
                            Cardinality({j \in DOMAIN s : s[j] < s[i]})
                            + Cardinality({j \in 1..i : s[j] = s[i]})]
    IN  <<>> \o [k \in DOMAIN s |-> s[CHOOSE i \in DOMAIN s : rank[i] = k]]

\* the entity after ToLower and the alias loop
Entity(rawText, st) == ReplaceAliases(ToLower(rawText), entityParams[st].Aliases, 0)

\* scheduleEntity.init: the expanded list it stores, or the error it returns
init(rawText, st) ==
    LET ep == entityParams[st]
        res == ExpandItems(Split(Entity(rawText, st), ","), ep.Range, rawText, <<>>)
    IN  IF res.err # NilErr THEN [expanded |-> <<>>, err |-> res.err]
        ELSE [expanded |-> SortInts(Uniq(AddSunday(res.vals, st))), err |-> NilErr]

NilEntity == [nil |-> TRUE, raw |-> <<>>, typ |-> "", expanded |-> <<>>]

newScheduleEntity(rawText, st) ==
    LET res == init(rawText, st)
    IN  IF res.err # NilErr THEN [se |-> NilEntity, err |-> res.err]
        ELSE [se |-> [nil |-> FALSE, raw |-> rawText, typ |-> st, expanded |-> res.expanded],
              err |-> NilErr]

----------------------------------------------------------------------------
(* job.go                                                                  *)

\* buf.WriteRune(r): the rune of an invalid byte is written as U+FFFD
WriteRune(buf, c) == Append(buf, IF c = XFF THEN UFFFD ELSE c)

RECURSIVE fieldsLoop(_, _, _, _, _, _)
\* the loop of fieldsN at the i-th byte of str, then the flush of buf after it;
\* str[offset:] panics when offset is beyond the end of str
fieldsLoop(str, i, offset, buf, fields, n) ==
    LET flush(f) == IF buf # <<>> THEN Append(f, buf) ELSE f
    IN  IF i > Len(str) THEN [panic |-> FALSE, flds |-> flush(fields)]
        ELSE IF n < 2
        THEN IF offset > Len(str) THEN [panic |-> TRUE, flds |-> <<>>]
             ELSE [panic |-> FALSE, flds |-> flush(Append(fields, TrimSpace(Drop(str, offset))))]
        ELSE IF IsSpace(str[i])
        THEN IF buf # <<>>
             THEN fieldsLoop(str, i + 1, offset + RuneStringLen(str[i]), <<>>,
                             Append(fields, buf), n - 1)
             ELSE fieldsLoop(str, i + 1, offset + RuneStringLen(str[i]), buf, fields, n)
        ELSE fieldsLoop(str, i + 1, offset + RuneStringLen(str[i]), WriteRune(buf, str[i]),
                        fields, n)

fieldsN(str, n) == fieldsLoop(TrimSpace(str), 1, 0, <<>>, <<>>, n)

\* length of the longest prefix of TRUEs of a sequence of BOOLEANs
RunLen(in) ==
    IF \E i \in DOMAIN in : ~in[i]
    THEN (CHOOSE i \in DOMAIN in : ~in[i] /\ \A j \in 1..(i - 1) : in[j]) - 1
    ELSE Len(in)

\* length of the longest prefix of s matched by \w*, \S* and \s*
WordRunLen(s) == RunLen(<<>> \o [i \in DOMAIN s |-> IsWord(s[i])])

NotSpaceRunLen(s) == RunLen(<<>> \o [i \in DOMAIN s |-> ~IsRegSpace(s[i])])

SpaceRunLen(s) == RunLen(<<>> \o [i \in DOMAIN s |-> IsRegSpace(s[i])])

RECURSIVE FieldsPrefixLen(_, _)
\* length of the match of (?:\S+\s+){k} at the start of s, -1 when there is none;
\* both runs are greedy and a shorter run never lets the next one match
FieldsPrefixLen(s, k) ==
    IF k = 0 THEN 0
    ELSE LET a == NotSpaceRunLen(s)
             b == SpaceRunLen(Drop(s, a))
             rest == FieldsPrefixLen(Drop(s, a + b), k - 1)
         IN  IF a = 0 \/ b = 0 \/ rest < 0 THEN -1 ELSE a + b + rest

\* scheduleReg with four fields for five
scheduleRegFourFields(s) ==
    LET noNewline(x) == \A i \in DOMAIN x : x[i] # "\n"
        name == IF s # <<>> /\ Head(s) = "@" THEN WordRunLen(Tail(s)) ELSE 0
        four == FieldsPrefixLen(s, 4)
    IN  IF name > 0 /\ noNewline(Drop(s, 1 + name))
        THEN <<SubSeq(s, 1, 1 + name), Drop(s, 1 + name)>>
        ELSE IF four > 0 /\ noNewline(Drop(s, four))
        THEN <<SubSeq(s, 1, four), Drop(s, four)>>
        ELSE <<>>

\* ^(@\w+|(?:\S+\s+){5})(.*)$ : the two submatches, or <<>> when s does not
\* match; '.' does not match a newline and '$' is the end of the text
scheduleReg(s) ==
    LET noNewline(x) == \A i \in DOMAIN x : x[i] # "\n"
        name == IF s # <<>> /\ Head(s) = "@" THEN WordRunLen(Tail(s)) ELSE 0
        five == FieldsPrefixLen(s, 5)
    IN  IF name > 0 /\ noNewline(Drop(s, 1 + name))
        THEN <<SubSeq(s, 1, 1 + name), Drop(s, 1 + name)>>
        ELSE IF five > 0 /\ noNewline(Drop(s, five))
        THEN <<SubSeq(s, 1, five), Drop(s, five)>>
        ELSE <<>>

NilSchedule == [nil |-> TRUE, text |-> <<>>]

\* the schedule collaborator: it accepts the text or rejects it with its error
ParseSchedule(text, accepts) ==
    IF accepts THEN [schedule |-> [nil |-> FALSE, text |-> text], err |-> NilErr]
    ELSE [schedule |-> NilSchedule, err |-> Errorf("schedule", text, <<>>)]

\* Job.parse: the fields it sets, the error it returns and its calls of the
\* collaborator
parse(rawLine, withUser, accepts) ==
    LET m == scheduleReg(TrimSpace(rawLine))
        zero == [panic |-> FALSE, user |-> <<>>, command |-> <<>>, schedule |-> NilSchedule,
                 err |-> NilErr, calls |-> <<>>]
    IN  IF Len(m) = 2
        THEN LET text == TrimSpace(m[1])
                 ps == ParseSchedule(text, accepts)
                 got == [zero EXCEPT !.schedule = ps.schedule, !.calls = <<text>>]
                 fields == fieldsN(m[2], 2)
             IN  IF ps.err # NilErr THEN [got EXCEPT !.err = ps.err]
                 ELSE IF withUser
                 THEN IF fields.panic THEN [got EXCEPT !.panic = TRUE]
                      ELSE IF Len(fields.flds) # 2
                      THEN [got EXCEPT !.err = Errorf("field is invalid", rawLine, <<>>)]
                      ELSE [got EXCEPT !.user = fields.flds[1], !.command = fields.flds[2]]
                 ELSE [got EXCEPT !.command = m[2]]
        ELSE [zero EXCEPT !.err = Errorf("field is invalid", rawLine, <<>>)]

NilJob == [nil |-> TRUE, raw |-> <<>>, user |-> <<>>, command |-> <<>>,
           schedule |-> NilSchedule, err |-> NilErr]

\* ParseJob: the Job it returns (none when parse panics)
ParseJob(rawLine, withUser, accepts) ==
    LET p == parse(rawLine, withUser, accepts)
    IN  IF p.panic THEN NilJob
        ELSE [nil |-> FALSE, raw |-> rawLine, user |-> p.user, command |-> p.command,
              schedule |-> p.schedule, err |-> p.err]

----------------------------------------------------------------------------
(* The inputs the functions are applied to                                 *)

\* items of a comma-separated field
MaxItems == 3

\* characters of the text after the schedule prefix
MaxRest == 4

\* the n of fieldsN
MaxN == 3

DecString(d) == <<>> \o [i \in DOMAIN d |-> DigitChars[d[i] + 1]]

RECURSIVE Join(_, _)
Join(items, sep) ==
    IF Len(items) = 0 THEN <<>>
    ELSE IF Len(items) = 1 THEN items[1]
    ELSE items[1] \o <<sep>> \o Join(Tail(items), sep)

PlainItems ==
    {<<"0">>, <<"1">>, <<"7">>, <<"8">>, <<"1", "2">>, <<"1", "3">>, <<"2", "3">>, <<"2", "4">>,
     <<"3", "1">>, <<"3", "2">>, <<"5", "9">>, <<"6", "0">>, <<"0", "0", "7">>,
     <<"1", "0", "0">>, DecString(<<4, 2, 9, 4, 9, 6, 7, 2, 9, 6>>),
     DecString(<<9, 2, 2, 3, 3, 7, 2, 0, 3, 6, 8, 5, 4, 7, 7, 5, 8, 0, 7>>),
     DecString(<<9, 2, 2, 3, 3, 7, 2, 0, 3, 6, 8, 5, 4, 7, 7, 5, 8, 0, 8>>),
     DecString(<<1, 8, 4, 4, 6, 7, 4, 4, 0, 7, 3, 7, 0, 9, 5, 5, 1, 6, 1, 5>>),
     DecString(<<1, 8, 4, 4, 6, 7, 4, 4, 0, 7, 3, 7, 0, 9, 5, 5, 1, 6, 1, 6>>), <<"-", "1">>,
     <<"+", "1">>, <<>>, <<" ", "5">>, <<"x">>, <<"*", "*">>, <<"*">>}

RangeItems ==
    {<<"1", "-", "1", "0">>, <<"0", "-", "7">>, <<"1", "-", "7">>, <<"5", "-", "5">>,
     <<"1", "0", "-", "1">>, <<"5", "-", "0">>, <<"0", "-", "5", "9">>, <<"0", "-", "6", "0">>,
     <<"1", "-", "1", "2">>, <<"1", "-", "1", "3">>, <<"0", "-", "2", "3">>,
     <<"1", "-", "3", "1">>, <<"0", "-", "3", "1">>, <<"0", "0", "-", "0", "7">>,
     <<"0", "0", "1", "-", "5">>, <<"1", "-", "1", "0", "0">>, <<"1", "-">>, <<"-", "5">>,
     <<"1", "-", "2", "-", "3">>, <<"*", "-", "5">>, <<"1", " ", "-", "5">>}

StepRanges ==
    {<<"*">>, <<"1", "-", "1", "0">>, <<"0", "-", "7">>, <<"5">>, <<"1", "0", "-", "1">>, <<>>}

Steps ==
    {<<"0">>, <<"1">>, <<"2">>, <<"3">>, <<"7">>, <<"1", "5">>, <<"5", "9">>, <<"6", "0">>,
     <<"0", "0", "7">>, <<>>, <<"x">>, <<"+", "1">>, <<"-", "1">>, <<"2", "/", "2">>,
     DecString(<<4, 2, 9, 4, 9, 6, 7, 2, 9, 6>>),
     DecString(<<9, 2, 2, 3, 3, 7, 2, 0, 3, 6, 8, 5, 4, 7, 7, 5, 8, 0, 7>>),
     DecString(<<9, 2, 2, 3, 3, 7, 2, 0, 3, 6, 8, 5, 4, 7, 7, 5, 8, 0, 8>>),
     DecString(<<1, 8, 4, 4, 6, 7, 4, 4, 0, 7, 3, 7, 0, 9, 5, 5, 1, 5, 5, 7>>),
     DecString(<<1, 8, 4, 4, 6, 7, 4, 4, 0, 7, 3, 7, 0, 9, 5, 5, 1, 6, 1, 4>>),
     DecString(<<1, 8, 4, 4, 6, 7, 4, 4, 0, 7, 3, 7, 0, 9, 5, 5, 1, 6, 1, 5>>),
     DecString(<<1, 8, 4, 4, 6, 7, 4, 4, 0, 7, 3, 7, 0, 9, 5, 5, 1, 6, 1, 6>>)}

AliasItems ==
    {<<"m", "o", "n">>, <<"s", "u", "n">>, <<"s", "a", "t">>, <<"f", "r", "i">>,
     <<"j", "a", "n">>, <<"j", "u", "n">>, <<"d", "e", "c">>, <<"M", "O", "N">>,
     <<"F", "r", "i">>, <<"m", "o", "n", "-", "f", "r", "i">>,
     <<"M", "O", "N", "-", "F", "r", "i">>, <<"f", "r", "i", "-", "s", "u", "n">>,
     <<"s", "u", "n", "-", "s", "a", "t">>, <<"j", "a", "n", "-", "j", "u", "n", "/", "2">>,
     <<"J", "A", "N", "-", "d", "e", "c">>, <<"j", "a", "n", "o", "v">>,
     <<"s", "a", "t", "u", "e">>, <<"x", "m", "o", "n">>, <<"m", "o">>,
     <<"m", "o", "n", "/", "2">>, <<"*", "/", "m", "o", "n">>, <<"1", "-", "s", "a", "t">>,
     <<"s", "u", "n", "d", "a", "y">>}

ListItems ==
    {<<"0">>, <<"7">>, <<"6", "0">>, <<>>, <<"1", "-", "3">>, <<"5", "-", "5">>,
     <<"*", "/", "1", "5">>, <<"m", "o", "n">>, <<"*">>}

ExampleFields ==
    {<<"*", "/", "1", "5">>, <<"1", "-", "1", "0", "/", "3">>,
     <<"m", "o", "n", ",", "w", "e", "d", ",", "f", "r", "i">>,
     <<"M", "O", "N", "-", "F", "r", "i">>, <<"j", "a", "n", "-", "j", "u", "n", "/", "2">>,
     <<"f", "r", "i", "-", "s", "u", "n">>, <<"7">>, <<"0", ",", "7">>, <<"*">>, <<"6", "0">>,
     <<"1", "3">>, <<"5", "-", "5">>, <<"5", "/", "2">>, <<"0", ",", "5", ",", "0">>,
     <<"7", ",", "0">>, <<"3", ",", "1", ",", "2", ",", "1">>, <<"1", "-", "3", ",">>}

RangeBounds ==
    {<<>>, <<"0">>, <<"1">>, <<"5">>, <<"7">>, <<"8">>, <<"0", "7">>, <<"1", "2">>, <<"1", "3">>,
     <<"2", "3">>, <<"2", "4">>, <<"3", "1">>, <<"3", "2">>, <<"5", "9">>, <<"6", "0">>,
     <<"9", "9">>, <<"0", "0", "5">>, <<"1", "0", "0">>}

RangeOthers ==
    {<<"*">>, <<>>, <<"-">>, <<"*", "*">>, <<"1">>, <<"x", "-", "5">>, <<"1", "-", "x">>,
     <<"1", "-", "5", " ">>, <<" ", "1", "-", "5">>, <<"1", "-", "-", "5">>,
     <<"-", "1", "-", "5">>, <<"1", "-", "5", "-">>, <<"1", "-", "5", "\n">>,
     <<"+", "1", "-", "5">>, <<"1", "/", "5">>, <<"*", "-", "*">>}

Prefixes ==
    {<<"@", "d">>, <<" ", "@", "d">>, <<"@">>, <<"@", "-">>, <<"@", "d", "_", "1">>,
     <<"x", "@", "d">>, <<"*", " ", "*", " ", "*", " ">>,
     <<"*", " ", "*", " ", "*", " ", "*", " ">>,
     <<"*", " ", "*", " ", "*", " ", "*", " ", "*", " ">>,
     <<"*", " ", " ", "*", "\t", "*", " ", "*", " ", "*", " ", " ">>,
     <<"*", " ", "*", " ", "*", " ", "*", " ", "*", "\n">>,
     <<"*", " ", "*", " ", "*", " ", "*", " ", "*", VT>>,
     <<"*", " ", "*", " ", "*", " ", "*", " ", "*">>,
     <<"*", "\n", "*", " ", "*", " ", "*", " ", "*", " ">>,
     <<"@", "d", " ", "*", " ", "*", " ", "*", " ", "*", " ">>}

ExampleRests ==
    {<<"r", "o", "o", "t", " ", "e", "c", "h", "o", " ", " ", "h", "i">>,
     <<" ", "e", "c", "h", "o", " ", "h", "i">>, <<" ", " ", "e", "c", "h", "o", " ", "h", "i">>,
     <<"r", " ", "c", " ", " ", "c">>, <<"r", "\t", "c", " ", VT, "c">>,
     <<"r", " ", " ", "c", " ", "c", " ">>, <<XFF, " ", "c", " ", "c">>,
     <<"r", " ", "c", XFF, "c">>, <<XFF, XFF, " ", "c">>}

ExampleLines ==
    {<<"*", "/", "5", " ", "*", " ", "*", " ", "*", " ", "*", " ", "r", "o", "o", "t", " ", "e", "c", "h", "o", " ", " ", "h", "i">>,
     <<"@", "d", "a", "i", "l", "y", " ", " ", "e", "c", "h", "o", " ", "h", "i">>,
     <<"*", " ", "*", " ", "*", " ", "*">>, <<"@", "d", "a", "i", "l", "y">>,
     <<"*", " ", "*", " ", "*", " ", "*", " ", "*">>,
     <<"*", " ", "*", " ", "*", " ", "*", " ", "*", " ", "r", "o", "o", "t">>}

SteppedItems == {r \o <<"/">> \o s : r \in StepRanges, s \in Steps}

Lists == UNION {{Join(f, ",") : f \in [1..k -> ListItems]} : k \in 2..MaxItems}

FieldInputs ==
    PlainItems \cup RangeItems \cup SteppedItems \cup AliasItems \cup Lists \cup ExampleFields

RangeInputs == {a \o <<"-">> \o b : a \in RangeBounds, b \in RangeBounds} \cup RangeOthers

RestChars == {"r", " ", "\n", VT, XFF}

Rests == UNION {[1..k -> RestChars] : k \in 0..MaxRest} \cup ExampleRests

LineInputs == {p \o r : p \in Prefixes, r \in Rests} \cup ExampleLines

----------------------------------------------------------------------------
(* The specification: Init draws a function and its arguments, the action  *)
(* of the function applies it.                                             *)

NoEntity == [se |-> NilEntity, err |-> NilErr]

NoRange == [ret |-> <<0, 0>>, err |-> NilErr]

NoFields == [panic |-> FALSE, flds |-> <<>>]

Init ==
    /\ pc = "start"
    /\ \/ /\ fn = "newScheduleEntity"
          /\ raw \in FieldInputs
          /\ typ \in scheduleTypes
          /\ hasUser = FALSE /\ schedOK = FALSE /\ limit = 0
       \/ /\ fn = "parseRange"
          /\ raw \in RangeInputs
          /\ typ \in scheduleTypes
          /\ hasUser = FALSE /\ schedOK = FALSE /\ limit = 0
       \/ /\ fn = "fieldsN"
          /\ raw \in Rests
          /\ limit \in 1..MaxN
          /\ typ = scheduleMinute /\ hasUser = FALSE /\ schedOK = FALSE
       \/ /\ fn = "ParseJob"
          /\ raw \in LineInputs
          /\ hasUser \in BOOLEAN
          /\ schedOK \in BOOLEAN
          /\ typ = scheduleMinute /\ limit = 0
    /\ se = NoEntity
    /\ rng = NoRange
    /\ flds = NoFields
    /\ jo = NilJob
    /\ delegated = <<>>

CallNewScheduleEntity ==
    /\ pc = "start" /\ fn = "newScheduleEntity"
    /\ se' = newScheduleEntity(raw, typ)
    /\ pc' = "done"
    /\ UNCHANGED <<fn, raw, typ, hasUser, schedOK, limit, rng, flds, jo, delegated>>

CallParseRange ==
    /\ pc = "start" /\ fn = "parseRange"
    /\ rng' = parseRange(raw, entityParams[typ].Range)
    /\ pc' = "done"
    /\ UNCHANGED <<fn, raw, typ, hasUser, schedOK, limit, se, flds, jo, delegated>>

CallFieldsN ==
    /\ pc = "start" /\ fn = "fieldsN"
    /\ flds' = fieldsN(raw, limit)
    /\ pc' = IF flds'.panic THEN "panic" ELSE "done"
    /\ UNCHANGED <<fn, raw, typ, hasUser, schedOK, limit, se, rng, jo, delegated>>

CallParseJob ==
    /\ pc = "start" /\ fn = "ParseJob"
    /\ jo' = ParseJob(raw, hasUser, schedOK)
    /\ delegated' = parse(raw, hasUser, schedOK).calls
    /\ pc' = IF parse(raw, hasUser, schedOK).panic THEN "panic" ELSE "done"
    /\ UNCHANGED <<fn, raw, typ, hasUser, schedOK, limit, se, rng, flds>>

Next == CallNewScheduleEntity \/ CallParseRange \/ CallFieldsN \/ CallParseJob

Spec == Init /\ [][Next]_vars

----------------------------------------------------------------------------
(* What the claims are stated with.  These definitions are written from    *)
(* the claims, not from the code.                                          *)

\* the domain of each field kind
KindDomain ==
    [st \in scheduleTypes |->
        CASE st = "Minute" -> [lo |-> 0, hi |-> 59]
          [] st = "Hour" -> [lo |-> 0, hi |-> 23]
          [] st = "Day" -> [lo |-> 1, hi |-> 31]
          [] st = "Month" -> [lo |-> 1, hi |-> 12]
          [] st = "DayOfWeek" -> [lo |-> 0, hi |-> 7]]

\* the aliases of each field kind, each with its number
KindAliases ==
    [st \in scheduleTypes |->
        CASE st = "Month" ->
                {<<<<"j", "a", "n">>, 1>>, <<<<"f", "e", "b">>, 2>>, <<<<"m", "a", "r">>, 3>>,
                 <<<<"a", "p", "r">>, 4>>, <<<<"m", "a", "y">>, 5>>, <<<<"j", "u", "n">>, 6>>,
                 <<<<"j", "u", "l">>, 7>>, <<<<"a", "u", "g">>, 8>>, <<<<"s", "e", "p">>, 9>>,
                 <<<<"o", "c", "t">>, 10>>, <<<<"n", "o", "v">>, 11>>, <<<<"d", "e", "c">>, 12>>}
          [] st = "DayOfWeek" ->
                {<<<<"s", "u", "n">>, 0>>, <<<<"m", "o", "n">>, 1>>, <<<<"t", "u", "e">>, 2>>,
                 <<<<"w", "e", "d">>, 3>>, <<<<"t", "h", "u">>, 4>>, <<<<"f", "r", "i">>, 5>>,
                 <<<<"s", "a", "t">>, 6>>}
          [] OTHER -> {}]

\* the decimal texts of one or two digits that denote k
TwoDigitTexts(k) ==
    IF k < 10 THEN {<<DigitChars[k + 1]>>, <<"0", DigitChars[k + 1]>>}
    ELSE {<<DigitChars[(k \div 10) + 1], DigitChars[(k % 10) + 1]>>}

\* the texts "a-b" of the range [a, b]
RangeTexts(a, b) == {x \o <<"-">> \o y : x \in TwoDigitTexts(a), y \in TwoDigitTexts(b)}

\* the ranges [a, b] a token may denote in a kind: a < b, both in the domain
ValidRanges(st) ==
    {ab \in (0..99) \X (0..99) :
        ab[1] < ab[2] /\ ab[1] >= KindDomain[st].lo /\ ab[2] <= KindDomain[st].hi}

\* the set of the values of a list
Values(s) == {s[i] : i \in DOMAIN s}

\* the comma-separated items of a field, as a set
ItemsOf(s) ==
    LET cuts == {0, Len(s) + 1} \cup {i \in DOMAIN s : s[i] = ","}
        next(c) == CHOOSE d \in cuts : d > c /\ \A e \in cuts : e > c => d <= e
    IN  {SubSeq(s, c + 1, next(c) - 1) : c \in cuts \ {Len(s) + 1}}

HasLetter(s) == \E i \in DOMAIN s : s[i] \in Elems(UpperChars) \cup Elems(LowerChars)

ExpandDone == pc = "done" /\ fn = "newScheduleEntity"

Accepted == se.err = NilErr /\ ~se.se.nil

Rejected == se.err # NilErr /\ se.se.nil /\ se.se.expanded = <<>>

----------------------------------------------------------------------------
(* The claims                                                              *)

\* C1: for every field kind and every raw field that expand accepts, the
\* expanded list is strictly ascending (so it has no duplicate) and every
\* value lies within the domain of the kind.
C1_StrictlyAscendingInDomain ==
    (ExpandDone /\ se.err = NilErr) =>
        /\ ~se.se.nil
        /\ \A i \in DOMAIN se.se.expanded :
              /\ se.se.expanded[i] >= KindDomain[typ].lo
              /\ se.se.expanded[i] <= KindDomain[typ].hi
              /\ i > 1 => se.se.expanded[i - 1] < se.se.expanded[i]

\* C1 witness: "3,1,2,1" on Minute is accepted and expands to 1, 2, 3.
C1_Witness ==
    /\ ExpandDone /\ typ = "Minute"
    /\ raw = <<"3", ",", "1", ",", "2", ",", "1">>
    /\ se.err = NilErr /\ se.se.expanded = <<1, 2, 3>>

\* C3: for DayOfWeek an expanded set that contains 7 contains 0 too, a 7
\* among the resolved values is never removed and no 7 is gained; "7" and
\* "0,7" expand to {0,7} and "*" to {0,...,7}.  For every other kind the
\* expanded set is exactly the set of the values the items resolved to.
C3_SundayDual ==
    (ExpandDone /\ se.err = NilErr) =>
        LET E == Values(se.se.expanded)
            resolved == Values(ExpandItems(Split(Entity(raw, typ), ","),
                                           <<KindDomain[typ].lo, KindDomain[typ].hi>>,
                                           raw, <<>>).vals)
        IN  /\ typ = "DayOfWeek" =>
                  /\ 7 \in E => 0 \in E
                  /\ 7 \in resolved <=> 7 \in E
                  /\ E = resolved \cup (IF 7 \in resolved THEN {0} ELSE {})
                  /\ raw = <<"7">> => se.se.expanded = <<0, 7>>
                  /\ raw = <<"0", ",", "7">> => se.se.expanded = <<0, 7>>
                  /\ raw = <<"*">> => se.se.expanded = <<0, 1, 2, 3, 4, 5, 6, 7>>
            /\ typ # "DayOfWeek" => E = resolved

\* C3 witness: "7" on DayOfWeek expands to 0 and 7.
C3_Witness ==
    /\ ExpandDone /\ typ = "DayOfWeek" /\ raw = <<"7">>
    /\ se.err = NilErr /\ se.se.expanded = <<0, 7>>

\* the token at the range position of a single item: the text before the
\* first "/" of a stepped item, or the whole of an item that is no number
RangePosition(item) ==
    IF \E i \in DOMAIN item : item[i] = "/"
    THEN SubSeq(item, 1, (CHOOSE i \in DOMAIN item :
                             item[i] = "/" /\ \A j \in 1..(i - 1) : item[j] # "/") - 1)
    ELSE item

IsNumber(item) == item # <<>> /\ \A i \in DOMAIN item : IsDigit(item[i])

\* C7: a token "a-b" of two numbers of one or two digits resolves to [a,b]
\* if and only if a < b, a >= min and b <= max; "*" resolves to [min,max];
\* every other token is an error.  A field whose item has, at the range
\* position, a token that does not resolve fails as a whole ("5-5",
\* "fri-sun" on DayOfWeek, "5/2").
C7_RangeResolution ==
    /\ (pc = "done" /\ fn = "parseRange") =>
          IF raw = <<"*">>
          THEN rng.err = NilErr /\ rng.ret = <<KindDomain[typ].lo, KindDomain[typ].hi>>
          ELSE IF \E ab \in ValidRanges(typ) : raw \in RangeTexts(ab[1], ab[2])
          THEN /\ rng.err = NilErr
               /\ \E ab \in ValidRanges(typ) :
                     raw \in RangeTexts(ab[1], ab[2]) /\ rng.ret = <<ab[1], ab[2]>>
          ELSE rng.err # NilErr
    /\ (ExpandDone /\ ~HasLetter(raw) /\ \A i \in DOMAIN raw : raw[i] # ",") =>
          LET tok == RangePosition(raw)
              stepped == \E i \in DOMAIN raw : raw[i] = "/"
          IN  ( /\ stepped \/ ~IsNumber(raw)
                /\ tok # <<"*">>
                /\ ~\E ab \in ValidRanges(typ) : tok \in RangeTexts(ab[1], ab[2]) )
              => Rejected
    /\ (ExpandDone /\ typ = "DayOfWeek" /\ raw = <<"f", "r", "i">> \o <<"-">> \o <<"s", "u", "n">>) => Rejected

\* C7 witness: parseRange resolves "5-59" to [5,59] on Minute.
C7_Witness ==
    /\ pc = "done" /\ fn = "parseRange" /\ typ = "Minute"
    /\ raw = <<"5", "-", "5", "9">>
    /\ rng.err = NilErr /\ rng.ret = <<5, 59>>

\* C8: expand is all-or-nothing over the comma-separated items: the field
\* is accepted if and only if each of its items is accepted as a field of
\* its own; an accepted field expands to the union of the items' values and
\* a rejected field yields an error and no expanded field ("60" on Minute,
\* "13" on Month, an empty item).
C8_AllOrNothing ==
    ExpandDone =>
        LET alone == {newScheduleEntity(item, typ) : item \in ItemsOf(raw)}
        IN  /\ Accepted \/ Rejected
            /\ Accepted <=> \A one \in alone : one.err = NilErr
            /\ Accepted =>
                  Values(se.se.expanded) = UNION {Values(one.se.expanded) : one \in alone}
            /\ <<>> \in ItemsOf(raw) => Rejected
            /\ (typ = "Minute" /\ <<"6", "0">> \in ItemsOf(raw)) => Rejected
            /\ (typ = "Month" /\ <<"1", "3">> \in ItemsOf(raw)) => Rejected

\* C8 witness: "1-3,*/15,60" fails on Minute, where its last item only is invalid.
C8_Witness ==
    /\ ExpandDone /\ typ = "Minute"
    /\ raw = <<"1", "-", "3", ",", "*", "/", "1", "5", ",", "6", "0">>
    /\ Rejected

RECURSIVE NumbersForAliases(_, _)
\* the field with every alias, in any letter case, replaced by its number,
\* scanning from the left
NumbersForAliases(s, st) ==
    LET head == ToLower(SubSeq(s, 1, IF Len(s) < 3 THEN Len(s) ELSE 3))
    IN  IF s = <<>> THEN <<>>
        ELSE IF \E a \in KindAliases[st] : head = a[1]
        THEN LET a == CHOOSE a \in KindAliases[st] : head = a[1]
             IN  (IF a[2] < 10 THEN <<DigitChars[a[2] + 1]>>
                  ELSE <<"1", DigitChars[a[2] - 9]>>) \o NumbersForAliases(Drop(s, 3), st)
        ELSE <<Head(s)>> \o NumbersForAliases(Tail(s), st)

AnyAlias == KindAliases["Month"] \cup KindAliases["DayOfWeek"]

HasAlias(s, aliases) ==
    \E i \in 1..(Len(s) - 2) : \E a \in aliases : ToLower(SubSeq(s, i, i + 2)) = a[1]

\* C9: for Month and DayOfWeek a field written with aliases, in any letter
\* case, has the outcome of the field with each alias replaced by its number:
\* both fail, or both succeed with the same set; "mon,wed,fri" gives {1,3,5},
\* "<<"m", "o", "n">>-Fri" {1,...,5} and "jan-jun/2" on Month {1,3,5}.  Alias text in a
\* Minute, Hour or Day field makes the field fail.
C9_AliasesAsNumbers ==
    ExpandDone =>
        LET plain == newScheduleEntity(NumbersForAliases(raw, typ), typ)
        IN  /\ typ \in {"Month", "DayOfWeek"} =>
                  /\ Accepted <=> plain.err = NilErr
                  /\ se.se.expanded = plain.se.expanded
            /\ (typ \notin {"Month", "DayOfWeek"} /\ HasAlias(raw, AnyAlias)) => Rejected
            /\ (typ = "DayOfWeek" /\ raw = <<"m", "o", "n">> \o <<",">> \o <<"w", "e", "d">> \o <<",">> \o <<"f", "r", "i">>)
                  => se.se.expanded = <<1, 3, 5>>
            /\ (typ = "DayOfWeek" /\ raw = <<"M", "O", "N">> \o <<"-">> \o <<"F", "r", "i">>)
                  => se.se.expanded = <<1, 2, 3, 4, 5>>
            /\ (typ = "Month" /\ raw = <<"j", "a", "n">> \o <<"-">> \o <<"j", "u", "n">> \o <<"/", "2">>)
                  => se.se.expanded = <<1, 3, 5>>

\* C9 witness: "<<"m", "o", "n">>-Fri" on DayOfWeek expands to 1, ..., 5.
C9_Witness ==
    /\ ExpandDone /\ typ = "DayOfWeek"
    /\ raw = <<"M", "O", "N">> \o <<"-">> \o <<"F", "r", "i">>
    /\ se.err = NilErr /\ se.se.expanded = <<1, 2, 3, 4, 5>>

\* the step of a single stepped item: the text after its first "/"
StepText(item) == Drop(item, Len(RangePosition(item)) + 1)

\* the digits of a decimal text, without leading zeros
Digits(s) == StripZeros(<<>> \o [i \in DOMAIN s |-> DigitVal(s[i])])

\* a decimal text whose value is between 1 and 2^64 - 1
PositiveStep(s) == IsNumber(s) /\ Digits(s) # <<0>> /\ DecLess(Digits(s), Pow2_64)

\* { a + k*S : k >= 0, a + k*S <= b } for the step text s: a step of more
\* than two digits is beyond every range, and leaves a alone
SteppedValues(a, b, s) ==
    {v \in a..b : v = a \/ (Len(Digits(s)) <= 2 /\ (v - a) % DecToNat(Digits(s)) = 0)}

\* a field that is one stepped item "R/S" whose R resolves
SteppedField ==
    /\ ExpandDone /\ ~HasLetter(raw)
    /\ \A i \in DOMAIN raw : raw[i] # ","
    /\ \E i \in DOMAIN raw : raw[i] = "/"
    /\ \/ RangePosition(raw) = <<"*">>
       \/ \E ab \in ValidRanges(typ) : RangePosition(raw) \in RangeTexts(ab[1], ab[2])

\* the range [a, b] that the R of a stepped field resolves to
SteppedRange ==
    IF RangePosition(raw) = <<"*">> THEN <<KindDomain[typ].lo, KindDomain[typ].hi>>
    ELSE CHOOSE ab \in ValidRanges(typ) : RangePosition(raw) \in RangeTexts(ab[1], ab[2])

\* the expanded set of a stepped field whose step is the text s
SteppedOutcome(s) ==
    LET kept == SteppedValues(SteppedRange[1], SteppedRange[2], s)
    IN  /\ Accepted
        /\ Values(se.se.expanded)
              = kept \cup (IF typ = "DayOfWeek" /\ 7 \in kept THEN {0} ELSE {})

\* C2: a stepped item "R/S", R resolving to [a,b] and S any decimal text of
\* a value from 1 to 2^64 - 1, contributes exactly the values a + k*S up to
\* b, counted from a; a step of 0 or a step that is no number makes the
\* field fail.
C2_SteppedValues ==
    SteppedField =>
        IF PositiveStep(StepText(raw)) THEN SteppedOutcome(StepText(raw)) ELSE Rejected

\* C2 below 2^63: the same statement for the steps that fit a signed 64-bit
\* integer, which is where the code agrees with it.
C2_SteppedValuesBelow2_63 ==
    SteppedField =>
        IF PositiveStep(StepText(raw))
        THEN DecLess(Digits(StepText(raw)), Pow2_63) => SteppedOutcome(StepText(raw))
        ELSE Rejected

JobReturned == pc = "done" /\ fn = "ParseJob"

InvalidField(line) == [kind |-> "field is invalid", raw |-> line, detail |-> <<>>]

\* the number of tokens that the whitespace of the pattern (\s) separates
TokenCount(t) ==
    Cardinality({i \in DOMAIN t : ~IsRegSpace(t[i]) /\ (i = 1 \/ IsRegSpace(t[i - 1]))})

\* the text begins with an @name token
BeginsWithName(t) == Len(t) >= 2 /\ t[1] = "@" /\ IsWord(t[2])

\* C4: with hasUser false and an accepted schedule, the collaborator is given
\* the schedule text without surrounding whitespace (the @name token or the
\* five fields) and the command is the rest of the line from its first
\* character that is no whitespace on, for both forms of the schedule.
C4_CommandWithoutUser ==
    (JobReturned /\ ~hasUser /\ schedOK /\ delegated # <<>>) =>
        LET t == TrimSpace(raw)
            text == delegated[1]
        IN  /\ Len(delegated) = 1
            /\ text = TrimSpace(text) /\ HasPrefix(t, text)
            /\ \/ BeginsWithName(t) /\ TokenCount(text) = 1
               \/ TokenCount(text) = 5
            /\ jo.err = NilErr
            /\ jo.command = TrimLeft(Drop(t, Len(text)))

\* C5: every Job that ParseJob returns is fully valid (no error, a schedule
\* and a command that is not empty) or fully failed (an error, and user,
\* command and schedule at their zero values).
C5_ValidOrFailed ==
    JobReturned =>
        \/ jo.err = NilErr /\ ~jo.schedule.nil /\ jo.command # <<>>
        \/ jo.err # NilErr /\ jo.user = <<>> /\ jo.command = <<>> /\ jo.schedule.nil

\* C6: with hasUser true and an accepted schedule, ParseJob succeeds if and
\* only if the remainder after the schedule holds two tokens at least; user
\* is then the first token and command all that follows the whitespace after
\* it, trimmed, with its inner whitespace as it was; otherwise the job fails
\* with the invalid-field error.  fieldsN(s, 2) returns two fields at most.
C6_UserAndCommand ==
    /\ (pc # "start" /\ fn = "ParseJob" /\ hasUser /\ schedOK /\ delegated # <<>>) =>
          LET rem == TrimSpace(Drop(TrimSpace(raw), Len(delegated[1])))
              user == SubSeq(rem, 1, RunLen(<<>> \o [i \in DOMAIN rem |-> ~IsSpace(rem[i])]))
              command == TrimSpace(Drop(rem, Len(user)))
          IN  /\ pc = "done"
              /\ IF command # <<>>
                 THEN jo.err = NilErr /\ jo.user = user /\ jo.command = command
                 ELSE jo.err = InvalidField(raw)
    /\ (pc = "done" /\ fn = "fieldsN" /\ limit = 2) => Len(flds.flds) <= 2

\* C6 on text that is valid UTF-8: the same statement for the lines without
\* an invalid byte, which is where the code agrees with it.
C6_UserAndCommandValidUTF8 ==
    (\A i \in DOMAIN raw : raw[i] # XFF) => C6_UserAndCommand

\* C10: a line whose trimmed text neither begins with an @name token nor has
\* five whitespace-separated tokens followed by whitespace and a remainder
\* fails with the invalid-field error that carries the raw line, and the
\* collaborator is not called; when the collaborator is called and rejects
\* the schedule, its error is returned as it is, whatever the split of user
\* and command would give.
C10_MalformedLine ==
    (pc # "start" /\ fn = "ParseJob") =>
        LET t == TrimSpace(raw)
        IN  /\ (~BeginsWithName(t) /\ TokenCount(t) < 6) =>
                  /\ pc = "done"
                  /\ jo.err = InvalidField(raw)
                  /\ delegated = <<>>
            /\ (delegated # <<>> /\ ~schedOK) =>
                  /\ pc = "done"
                  /\ jo.err = [kind |-> "schedule", raw |-> delegated[1], detail |-> <<>>]
            /\ raw \in {<<"*", " ", "*", " ", "*", " ", "*">>,
                        <<"*", " ", "*", " ", "*", " ", "*", " ", "*">>}
                  => jo.err = InvalidField(raw) /\ delegated = <<>>

\* C10 witness: the four-field line "* * * *" fails with the invalid-field
\* error when a user column is expected, and the collaborator is not called.
C10_Witness ==
    /\ JobReturned /\ hasUser
    /\ raw = <<"*", " ", "*", " ", "*", " ", "*">>
    /\ jo.err = InvalidField(raw) /\ delegated = <<>>

====
